---- MODULE Spec2Model ----
(***************************************************************************)
(* A model of algorithms/graphs/graph.py: the classes Vertex and Graph,    *)
(* the construction calls add_vertex / add_edge, the queries connected and *)
(* print_path, and the algorithms bfs, dfs, bellman_ford and dijkstra.     *)
(*                                                                         *)
(* A Vertex is a Python object: it is modelled by its allocation number    *)
(* 1, 2, ...  (the n-th Vertex ever constructed).  Every field that holds  *)
(* a Vertex (the keys of connected_to, the keys of dist, predecessor, the  *)
(* values of Graph.vertices) holds such a number, so a Vertex that was     *)
(* replaced in Graph.vertices by add_vertex on an existing key is still    *)
(* there for the adjacency maps that refer to it.                          *)
(*                                                                         *)
(* A Python dict keeps insertion order and the code iterates over dicts,   *)
(* so Graph.vertices and Vertex.connected_to are sequences of <<key,       *)
(* value>> pairs; Vertex.dist is only ever indexed, so it is a function.   *)
(***************************************************************************)
EXTENDS Integers, Sequences, FiniteSets, TLC

VARIABLES
    directed,       \* Graph.directed
    num_vertices,   \* Graph.num_vertices
    vertices,       \* Graph.vertices: ordered dict key -> Vertex
    vid,            \* Vertex.id, per Vertex
    connected_to,   \* Vertex.connected_to, per Vertex: ordered dict Vertex -> weight
    dist,           \* Vertex.dist, per Vertex: dict source Vertex -> distance
    color,          \* Vertex.color, per Vertex
    predecessor,    \* Vertex.predecessor, per Vertex (None or a Vertex)
    nruns,          \* number of algorithm and print_path calls made so far
    last            \* the last such call: name, arguments, outcome, printed output

vars == <<directed, num_vertices, vertices, vid, connected_to, dist, color,
          predecessor, nruns, last>>

----------------------------------------------------------------------------
(* Bounds of the model *)

\* keys passed to the calls are 0..MaxKey
MaxKey == 2
\* explicit edge weights are -MaxNegWeight..MaxWeight
MaxWeight == 1
MaxNegWeight == 1
\* add_vertex is called (directly or by add_edge) at most MaxObjs times
MaxObjs == 4
\* the adjacency maps hold at most MaxEdges entries in total
MaxEdges == 2
\* at most MaxRuns algorithm or query calls follow the construction
MaxRuns == 1
\* add_vertex is called at most MaxReAdds times on a key that is already there
MaxReAdds == 1
\* a dijkstra call that pops more than PopLimit tasks is taken not to return
PopLimit == 24

Keys == 0..MaxKey
Weights == (0 - MaxNegWeight)..MaxWeight

----------------------------------------------------------------------------
(* Program constants *)

WHITE == 0
BLACK == 1
GRAY == 2
\* None, where a Vertex is expected (Vertex numbers start at 1)
None == 0
\* sys.maxsize, the "infinity" of the code.  Python integers do not overflow,
\* so maxsize + w is an ordinary number below or above maxsize; the model
\* keeps that arithmetic with a value that fits the model checker's integers.
maxsize == 1000000

----------------------------------------------------------------------------
(* Python dicts *)

\* key in d
DictHas(d, k) == \E i \in 1..Len(d) : d[i][1] = k
\* d[key]
DictGet(d, k) == d[CHOOSE i \in 1..Len(d) : d[i][1] = k][2]
\* d[key] = value: an existing key keeps its place, a new one goes last
DictSet(d, k, v) ==
    IF DictHas(d, k)
    THEN [i \in 1..Len(d) |-> IF d[i][1] = k THEN <<k, v>> ELSE d[i]]
    ELSE Append(d, <<k, v>>)
\* list(d.keys()) and list(d.values())
DictKeys(d) == [i \in 1..Len(d) |-> d[i][1]]
DictValues(d) == [i \in 1..Len(d) |-> d[i][2]]

\* Vertex.dist as one slot in place of a dict: f[k] = v drops the other entries
FunSetSingleSlot(f, k, v) == [x \in {k} |-> v]

\* an unordered dict (Vertex.dist) as a function: f[k] = v
FunSet(f, k, v) == [x \in (DOMAIN f) \cup {k} |-> IF x = k THEN v ELSE f[x]]
EmptyFun == [x \in {} |-> 0]

\* the elements of a sequence
Range(s) == {s[i] : i \in 1..Len(s)}

----------------------------------------------------------------------------
(* Graph queries *)

\* every Vertex constructed so far
Objs == 1..num_vertices
\* iter(Graph): the Vertex objects of Graph.vertices, in order
GraphIter == DictValues(vertices)
LiveObjs == Range(GraphIter)
\* Graph.__contains__
Contains(key) == DictHas(vertices, key)
\* Vertex.get_connections, as a list
get_connections(u) == DictKeys(connected_to[u])
\* Vertex.get_weight
get_weight(u, v) == DictGet(connected_to[u], v)
\* Graph.get_vertices, as a list
get_vertices == DictKeys(vertices)

\* the edges of one vertex, then Graph.get_edges
EdgesOf(v) == [i \in 1..Len(connected_to[v]) |->
                  <<v, connected_to[v][i][1], connected_to[v][i][2]>>]
RECURSIVE EdgesFrom(_)
EdgesFrom(vs) == IF vs = <<>> THEN <<>>
                 ELSE EdgesOf(Head(vs)) \o EdgesFrom(Tail(vs))
get_edges == EdgesFrom(GraphIter)

\* Graph.connected
connected(key_1, key_2) ==
    \E i \in 1..Len(connected_to[DictGet(vertices, key_1)]) :
        vid[connected_to[DictGet(vertices, key_1)][i][1]] = key_2

\* the number of adjacency entries over all Vertex objects
RECURSIVE SumLen(_, _)
SumLen(f, n) == IF n = 0 THEN 0 ELSE Len(f[n]) + SumLen(f, n - 1)
NumEntries == SumLen(connected_to, num_vertices)

----------------------------------------------------------------------------
(* The state after Graph(directed) *)

Call(op, args, outcome, out) ==
    [op |-> op, args |-> args, outcome |-> outcome, out |-> out]

Init ==
    /\ directed \in BOOLEAN
    /\ num_vertices = 0
    /\ vertices = <<>>
    /\ vid = <<>>
    /\ connected_to = <<>>
    /\ dist = <<>>
    /\ color = <<>>
    /\ predecessor = <<>>
    /\ nruns = 0
    /\ last = Call("Graph", <<>>, "ok", <<>>)

\* a call that does not return (a blocked put, an endless loop) ends the run
Running == last.outcome # "hang"

----------------------------------------------------------------------------
(* Construction: add_vertex, add_edge *)

\* The fields of the graph that construction writes, as a record
GraphRec == [num_vertices |-> num_vertices, vertices |-> vertices, vid |-> vid,
             connected_to |-> connected_to, dist |-> dist, color |-> color,
             predecessor |-> predecessor]

\* Graph.add_vertex on a graph record: a new Vertex, stored under key
add_vertex(g, key) ==
    [g EXCEPT !.num_vertices = @ + 1,
              !.vertices = DictSet(@, key, g.num_vertices + 1),
              !.vid = Append(@, key),
              !.connected_to = Append(@, <<>>),
              !.dist = Append(@, EmptyFun),
              !.color = Append(@, WHITE),
              !.predecessor = Append(@, None)]

\* Vertex.add_neighbour
add_neighbour(g, u, neighbour, weight) ==
    [g EXCEPT !.connected_to[u] = DictSet(@, neighbour, weight)]

\* Graph.add_edge(vertex_1, vertex_2, *cost)
add_edge(g, vertex_1, vertex_2, cost) ==
    LET g1 == IF ~DictHas(g.vertices, vertex_1) THEN add_vertex(g, vertex_1) ELSE g
        g2 == IF ~DictHas(g1.vertices, vertex_2) THEN add_vertex(g1, vertex_2) ELSE g1
        v1 == DictGet(g2.vertices, vertex_1)
        v2 == DictGet(g2.vertices, vertex_2)
        w  == IF Len(cost) = 0 THEN 0 ELSE cost[1]
        g3 == add_neighbour(g2, v1, v2, w)
    IN  IF ~directed THEN add_neighbour(g3, v2, v1, w) ELSE g3

SetGraph(g) ==
    /\ num_vertices' = g.num_vertices
    /\ vertices' = g.vertices
    /\ vid' = g.vid
    /\ connected_to' = g.connected_to
    /\ dist' = g.dist
    /\ color' = g.color
    /\ predecessor' = g.predecessor

\* Lifecycle: vertices and edges are added before any algorithm runs
Building == Running /\ nruns = 0

AddVertex(key) ==
    /\ Building
    /\ num_vertices < MaxObjs
    /\ Contains(key) => num_vertices - Len(vertices) < MaxReAdds
    /\ SetGraph(add_vertex(GraphRec, key))
    /\ UNCHANGED <<directed, nruns, last>>

AddEdge(k1, k2, cost) ==
    /\ Building
    /\ LET g == add_edge(GraphRec, k1, k2, cost)
       IN  /\ g.num_vertices <= MaxObjs
           /\ SumLen(g.connected_to, g.num_vertices) <= MaxEdges
           /\ SetGraph(g)
    /\ UNCHANGED <<directed, nruns, last>>

Costs == {<<>>} \cup {<<w>> : w \in Weights}

\* Graph.add_edge, from the tuple edge of its positional arguments: line 127
\* unpacks it into vertex_1, vertex_2 and the rest, and raises ValueError when
\* it holds fewer than two values
add_edge_star(g, edge) ==
    IF Len(edge) < 2 THEN [g |-> g, outcome |-> "ValueError"]
    ELSE [g |-> add_edge(g, edge[1], edge[2], SubSeq(edge, 3, Len(edge))),
          outcome |-> "ok"]

\* Graph.add_edges: line 117 passes every element of the list to add_edge as
\* ONE positional argument, self.add_edge(edge)
RECURSIVE add_edges(_, _)
add_edges(g, edges) ==
    IF edges = <<>> THEN [g |-> g, outcome |-> "ok"]
    ELSE LET r == add_edge_star(g, <<Head(edges)>>)
         IN  IF r.outcome # "ok" THEN r ELSE add_edges(r.g, Tail(edges))

\* Graph.get_vertex: the Vertex stored under key, or KeyError
get_vertex(key) ==
    IF Contains(key) THEN [outcome |-> "ok", vertex |-> DictGet(vertices, key)]
    ELSE [outcome |-> "KeyError", vertex |-> None]

----------------------------------------------------------------------------
(* What the algorithms write: the dist, color and predecessor of every Vertex *)

Mut == [dist |-> dist, color |-> color, predecessor |-> predecessor]

Ret(m, outcome, out) == [m |-> m, outcome |-> outcome, out |-> out]

\* a printed vertex identity, and the "No path from .. to .. exists!" line
PrintId(key) == <<"id", key>>
PrintNoPath(key_1, key_2) == <<"nopath", key_1, key_2>>

----------------------------------------------------------------------------
(* Graph.bfs *)

\* lines 190-198: every vertex of the graph but the source is reset, then the source
BfsInit(m, source) ==
    [dist |-> [o \in DOMAIN m.dist |->
                  IF o = source THEN FunSet(m.dist[o], source, 0)
                  ELSE IF o \in LiveObjs THEN FunSet(m.dist[o], source, maxsize)
                  ELSE m.dist[o]],
     color |-> [o \in DOMAIN m.color |->
                  IF o = source THEN GRAY
                  ELSE IF o \in LiveObjs THEN WHITE
                  ELSE m.color[o]],
     predecessor |-> [o \in DOMAIN m.predecessor |->
                  IF o = source \/ o \in LiveObjs THEN None
                  ELSE m.predecessor[o]]]

\* BfsDiscover with the queue of line 200 created as queue.Queue(1)
BfsDiscoverCapacityOne(b, u, v, source) ==
    LET m1 == [b.m EXCEPT !.color[v] = GRAY,
                          !.dist[v] = FunSet(@, source, b.m.dist[u][source] + 1),
                          !.predecessor[v] = u]
    IN  IF Len(b.q) >= 1
        THEN [b EXCEPT !.m = m1, !.hang = TRUE]
        ELSE [b EXCEPT !.m = m1, !.q = Append(@, v)]

\* lines 205-209: a WHITE neighbour v of u is discovered and put on the queue;
\* q.put blocks for ever when the queue already holds num_vertices items
BfsDiscover(b, u, v, source) ==
    LET m1 == [b.m EXCEPT !.color[v] = GRAY,
                          !.dist[v] = FunSet(@, source, b.m.dist[u][source] + 1),
                          !.predecessor[v] = u]
    IN  IF Len(b.q) >= num_vertices
        THEN [b EXCEPT !.m = m1, !.hang = TRUE]
        ELSE [b EXCEPT !.m = m1, !.q = Append(@, v)]

\* lines 204-209: the scan of the neighbours vs of u, in order
RECURSIVE BfsScan(_, _, _, _)
BfsScan(b, u, vs, source) ==
    IF vs = <<>> \/ b.hang THEN b
    ELSE IF b.m.color[Head(vs)] = WHITE
         THEN BfsScan(BfsDiscover(b, u, Head(vs), source), u, Tail(vs), source)
         ELSE BfsScan(b, u, Tail(vs), source)

\* BfsStep with a stack in place of the queue: q.get() hands out the newest item
BfsStepNewestFirst(b, source) ==
    LET u  == b.q[Len(b.q)]
        b1 == BfsScan([b EXCEPT !.q = SubSeq(@, 1, Len(@) - 1)], u,
                      get_connections(u), source)
    IN  IF b1.hang THEN b1 ELSE [b1 EXCEPT !.m.color[u] = BLACK]

\* lines 202-210: one turn of the while loop, then the loop
BfsStep(b, source) ==
    LET u  == Head(b.q)
        b1 == BfsScan([b EXCEPT !.q = Tail(@)], u, get_connections(u), source)
    IN  IF b1.hang THEN b1 ELSE [b1 EXCEPT !.m.color[u] = BLACK]

RECURSIVE BfsLoop(_, _)
BfsLoop(b, source) ==
    IF b.q = <<>> \/ b.hang THEN b ELSE BfsLoop(BfsStep(b, source), source)

\* lines 190-201: the state in which the while loop is entered
BfsStart(m, source) == [m |-> BfsInit(m, source), q |-> <<source>>, hang |-> FALSE]

bfs(m, source_key) ==
    IF ~Contains(source_key) THEN Ret(m, "KeyError", <<>>)
    ELSE LET source == DictGet(vertices, source_key)
             b == BfsLoop(BfsStart(m, source), source)
         IN  Ret(b.m, IF b.hang THEN "hang" ELSE "ok", <<>>)

\* the states of the while loop of bfs, turn after turn: b, then the state
\* after every turn, up to the one BfsLoop ends in
RECURSIVE BfsTrace(_, _)
BfsTrace(b, source) ==
    IF b.q = <<>> \/ b.hang THEN <<b>>
    ELSE <<b>> \o BfsTrace(BfsStep(b, source), source)

----------------------------------------------------------------------------
(* Graph.dfs *)

\* lines 216-218
DfsInit(m) ==
    [m EXCEPT !.color = [o \in DOMAIN @ |-> IF o \in LiveObjs THEN WHITE ELSE @[o]],
              !.predecessor = [o \in DOMAIN @ |-> IF o \in LiveObjs THEN None ELSE @[o]]]

RECURSIVE dfs_visit(_, _), DfsScan(_, _, _)
\* lines 228-234
dfs_visit(d, u) ==
    LET d1 == [d EXCEPT !.out = Append(@, PrintId(vid[u])), !.m.color[u] = GRAY]
        d2 == DfsScan(d1, u, get_connections(u))
    IN  [d2 EXCEPT !.m.color[u] = BLACK]
\* lines 230-233: the neighbours vs of u, in order
DfsScan(d, u, vs) ==
    IF vs = <<>> THEN d
    ELSE IF d.m.color[Head(vs)] = WHITE
         THEN DfsScan(dfs_visit([d EXCEPT !.m.predecessor[Head(vs)] = u], Head(vs)),
                      u, Tail(vs))
         ELSE DfsScan(d, u, Tail(vs))

\* lines 219-221: the vertices us of the graph, in order
RECURSIVE DfsRoots(_, _)
DfsRoots(d, us) ==
    IF us = <<>> THEN d
    ELSE IF d.m.color[Head(us)] = WHITE
         THEN DfsRoots(dfs_visit(d, Head(us)), Tail(us))
         ELSE DfsRoots(d, Tail(us))

dfs(m) ==
    LET d == DfsRoots([m |-> DfsInit(m), out |-> <<>>], GraphIter)
    IN  Ret(d.m, "ok", d.out)

----------------------------------------------------------------------------
(* Single-source shortest paths: initialize_single_source, relax, bellman_ford *)

initialize_single_source(m, source) ==
    [m EXCEPT !.dist = [o \in DOMAIN @ |->
                           IF o = source THEN FunSet(@[o], source, 0)
                           ELSE IF o \in LiveObjs THEN FunSet(@[o], source, maxsize)
                           ELSE @[o]],
              !.predecessor = [o \in DOMAIN @ |->
                           IF o \in LiveObjs THEN None ELSE @[o]]]

\* v.dist[source] or u.dist[source] raises KeyError when the entry is not there
DistMissing(m, source, u, v) ==
    source \notin DOMAIN m.dist[v] \/ source \notin DOMAIN m.dist[u]

\* lines 255-257
relax(m, source, u, v, weight) ==
    IF m.dist[v][source] > m.dist[u][source] + weight
    THEN [m EXCEPT !.dist[v] = FunSet(@, source, m.dist[u][source] + weight),
                   !.predecessor[v] = u]
    ELSE m

\* lines 285-286: relax over the edges es, in order
RECURSIVE BfPass(_, _, _)
BfPass(r, es, source) ==
    IF es = <<>> \/ r.outcome # "ok" THEN r
    ELSE IF DistMissing(r.m, source, Head(es)[1], Head(es)[2])
         THEN [r EXCEPT !.outcome = "KeyError"]
         ELSE BfPass([r EXCEPT !.m = relax(@, source, Head(es)[1], Head(es)[2],
                                           Head(es)[3])],
                     Tail(es), source)

\* line 284: n passes; passes counts the passes that ran to their end
RECURSIVE BfPasses(_, _, _)
BfPasses(r, n, source) ==
    IF n <= 0 \/ r.outcome # "ok" THEN r
    ELSE LET r1 == BfPass(r, get_edges, source)
         IN  BfPasses(IF r1.outcome = "ok" THEN [r1 EXCEPT !.passes = @ + 1] ELSE r1,
                      n - 1, source)

\* lines 287-289: the detection scan over the edges es, in order
RECURSIVE BfDetect(_, _, _)
BfDetect(r, es, source) ==
    IF es = <<>> \/ r.outcome # "ok" THEN r
    ELSE IF DistMissing(r.m, source, Head(es)[1], Head(es)[2])
         THEN [r EXCEPT !.outcome = "KeyError"]
         ELSE IF r.m.dist[Head(es)[2]][source]
                    > r.m.dist[Head(es)[1]][source] + Head(es)[3]
              THEN [r EXCEPT !.outcome = "ValueError"]
              ELSE BfDetect(r, Tail(es), source)

bellman_ford(m, source_key) ==
    IF ~Contains(source_key)
    THEN [m |-> m, outcome |-> "KeyError", out |-> <<>>, passes |-> 0]
    ELSE LET source == DictGet(vertices, source_key)
             r0 == [m |-> initialize_single_source(m, source), outcome |-> "ok",
                    out |-> <<>>, passes |-> 0]
             r1 == BfPasses(r0, num_vertices - 1, source)
         IN  BfDetect(r1, get_edges, source)

----------------------------------------------------------------------------
(* datastructures.heap.MutablePriorityQueue: a list of <<task, priority>>   *)
(* entries in the order of their add_task calls                             *)

\* add_task(task, priority): a task already there gets the new priority
add_task(pq, task, priority) ==
    Append(SelectSeq(pq, LAMBDA e : e[1] # task), <<task, priority>>)
pq_empty(pq) == pq = <<>>
\* the entry pop_task takes: of minimum priority, the oldest of those
PqMin(pq) ==
    CHOOSE i \in 1..Len(pq) :
        \A j \in 1..Len(pq) :
            pq[i][2] < pq[j][2] \/ (pq[i][2] = pq[j][2] /\ i <= j)
pop_task(pq) ==
    [task |-> pq[PqMin(pq)][1],
     pq |-> [i \in 1..(Len(pq) - 1) |-> IF i < PqMin(pq) THEN pq[i] ELSE pq[i + 1]]]

----------------------------------------------------------------------------
(* Graph.dijkstra *)

\* relax_with_priority_update without line 273: the queue is not told
relax_without_priority_update(d, source, u, v, weight) ==
    IF d.m.dist[v][source] > d.m.dist[u][source] + weight
    THEN [d EXCEPT !.m = relax(@, source, u, v, weight)]
    ELSE d

\* lines 270-273
relax_with_priority_update(d, source, u, v, weight) ==
    IF d.m.dist[v][source] > d.m.dist[u][source] + weight
    THEN [d EXCEPT !.m = relax(@, source, u, v, weight),
                   !.pq = add_task(@, v, d.m.dist[u][source] + weight)]
    ELSE d

\* lines 300-302: the queue is loaded with the vertices under the keys ks
RECURSIVE DijkstraLoad(_, _, _, _)
DijkstraLoad(pq, ks, m, source) ==
    IF ks = <<>> THEN pq
    ELSE DijkstraLoad(add_task(pq, DictGet(vertices, Head(ks)),
                               m.dist[DictGet(vertices, Head(ks))][source]),
                      Tail(ks), m, source)

\* lines 305-306: the neighbours vs of u, in order
RECURSIVE DijkstraScan(_, _, _, _)
DijkstraScan(d, u, vs, source) ==
    IF vs = <<>> \/ d.outcome # "ok" THEN d
    ELSE IF DistMissing(d.m, source, u, Head(vs))
         THEN [d EXCEPT !.outcome = "KeyError"]
         ELSE DijkstraScan(relax_with_priority_update(d, source, u, Head(vs),
                                                      get_weight(u, Head(vs))),
                           u, Tail(vs), source)

\* lines 303-306: one turn of the while loop, then the loop; a loop that is
\* still running after PopLimit turns never ends
DijkstraStep(d, source) ==
    LET p == pop_task(d.pq)
    IN  DijkstraScan([d EXCEPT !.pq = p.pq, !.pops = @ + 1], p.task,
                     get_connections(p.task), source)

RECURSIVE DijkstraLoop(_, _)
DijkstraLoop(d, source) ==
    IF pq_empty(d.pq) \/ d.outcome # "ok" THEN d
    ELSE IF d.pops >= PopLimit THEN [d EXCEPT !.outcome = "hang"]
    ELSE DijkstraLoop(DijkstraStep(d, source), source)

\* lines 298-302: the state in which the while loop is entered
DijkstraStart(m, source) ==
    LET m0 == initialize_single_source(m, source)
    IN  [m |-> m0, pq |-> DijkstraLoad(<<>>, get_vertices, m0, source),
         outcome |-> "ok", pops |-> 0]

dijkstra(m, source_key) ==
    IF ~Contains(source_key) THEN Ret(m, "KeyError", <<>>)
    ELSE LET source == DictGet(vertices, source_key)
             d == DijkstraLoop(DijkstraStart(m, source), source)
         IN  Ret(d.m, d.outcome, <<>>)

\* the states of the while loop of dijkstra, turn after turn: d, then the
\* state after every turn, up to the one DijkstraLoop stops at
RECURSIVE DijkstraTrace(_, _)
DijkstraTrace(d, source) ==
    IF pq_empty(d.pq) \/ d.outcome # "ok" \/ d.pops >= PopLimit THEN <<d>>
    ELSE <<d>> \o DijkstraTrace(DijkstraStep(d, source), source)

----------------------------------------------------------------------------
(* Graph.print_path *)

\* lines 174-180; the recursion follows predecessor, and a chain longer than
\* the number of Vertex objects never ends (RecursionError)
RECURSIVE PrintPathUtil(_, _, _)
PrintPathUtil(source, destination, depth) ==
    IF source = destination THEN Ret(Mut, "ok", <<PrintId(vid[source])>>)
    ELSE IF predecessor[destination] = None
         THEN Ret(Mut, "ok", <<PrintNoPath(vid[source], vid[destination])>>)
         ELSE IF depth >= num_vertices THEN Ret(Mut, "RecursionError", <<>>)
         ELSE LET r == PrintPathUtil(source, predecessor[destination], depth + 1)
              IN  IF r.outcome # "ok" THEN r
                  ELSE [r EXCEPT !.out = Append(@, PrintId(vid[destination]))]

\* print_path without the lookup of line 165: a destination key that is not
\* in the graph is reported as a vertex without a path
print_path_unchecked_destination(key_source, key_destination) ==
    IF ~Contains(key_source) THEN Ret(Mut, "KeyError", <<>>)
    ELSE IF ~Contains(key_destination)
         THEN Ret(Mut, "ok", <<PrintNoPath(key_source, key_destination)>>)
         ELSE PrintPathUtil(DictGet(vertices, key_source),
                            DictGet(vertices, key_destination), 0)

print_path(key_source, key_destination) ==
    IF ~Contains(key_source) \/ ~Contains(key_destination)
    THEN Ret(Mut, "KeyError", <<>>)
    ELSE PrintPathUtil(DictGet(vertices, key_source),
                       DictGet(vertices, key_destination), 0)

----------------------------------------------------------------------------
(* The algorithm calls that follow the construction *)

\* another algorithm call may be made, the limit-th at most
CanCall(limit) == Running /\ nruns < limit

\* Finish for a call that also recounts the vertices: num_vertices is set to the
\* number of keys of Graph.vertices
FinishRecounting(op, args, r) ==
    /\ nruns' = nruns + 1
    /\ last' = Call(op, args, r.outcome, r.out)
    /\ IF r.outcome = "hang"
       THEN UNCHANGED <<dist, color, predecessor>>
       ELSE /\ dist' = r.m.dist
            /\ color' = r.m.color
            /\ predecessor' = r.m.predecessor
    /\ num_vertices' = Len(vertices)
    /\ UNCHANGED <<directed, vertices, vid, connected_to>>

\* a call op(args) that ends as r; one that does not return leaves no state
\* to look at, so the fields keep their values
Finish(op, args, r) ==
    /\ nruns' = nruns + 1
    /\ last' = Call(op, args, r.outcome, r.out)
    /\ IF r.outcome = "hang"
       THEN UNCHANGED <<dist, color, predecessor>>
       ELSE /\ dist' = r.m.dist
            /\ color' = r.m.color
            /\ predecessor' = r.m.predecessor
    /\ UNCHANGED <<directed, num_vertices, vertices, vid, connected_to>>

Bfs(key) ==
    /\ CanCall(MaxRuns)
    /\ Finish("bfs", <<key>>, bfs(Mut, key))
Dfs ==
    /\ CanCall(MaxRuns)
    /\ Finish("dfs", <<>>, dfs(Mut))
BellmanFord(key) ==
    /\ CanCall(MaxRuns)
    /\ Finish("bellman_ford", <<key>>, bellman_ford(Mut, key))
Dijkstra(key) ==
    /\ CanCall(MaxRuns)
    /\ Finish("dijkstra", <<key>>, dijkstra(Mut, key))

\* the two queries; get_vertex writes no field and prints nothing
GetVertex(key) ==
    /\ CanCall(MaxRuns)
    /\ Finish("get_vertex", <<key>>, Ret(Mut, get_vertex(key).outcome, <<>>))
PrintPath(key_source, key_destination) ==
    /\ CanCall(MaxRuns)
    /\ Finish("print_path", <<key_source, key_destination>>,
              print_path(key_source, key_destination))

Next ==
    \/ \E key \in Keys : AddVertex(key)
    \/ \E k1 \in Keys, k2 \in Keys, cost \in Costs : AddEdge(k1, k2, cost)
    \/ \E key \in Keys : Bfs(key)
    \/ Dfs
    \/ \E key \in Keys : BellmanFord(key)
    \/ \E key \in Keys : Dijkstra(key)
    \/ \E key \in Keys : GetVertex(key)
    \/ \E ks \in Keys, kd \in Keys : PrintPath(ks, kd)

Spec == Init /\ [][Next]_vars

----------------------------------------------------------------------------
(* The script under if __name__ == "__main__": Graph(), six add_vertex     *)
(* calls, nine add_edge calls, then algorithm calls on the graph it built  *)

DemoVertices == 6
DemoEdges == << <<0, 1, 5>>, <<0, 5, 2>>, <<1, 2, 4>>, <<2, 3, 9>>, <<3, 4, 7>>,
                <<3, 5, 3>>, <<4, 0, 1>>, <<5, 4, 8>>, <<5, 2, 1>> >>
DemoKeys == 0..(DemoVertices - 1)
\* the script calls bfs(0) and dijkstra(0); the model lets at most DemoCalls
\* algorithm calls, of any algorithm from any key of the graph, follow
DemoCalls == 2

DemoInit == Init /\ directed

\* lines 311-312: the next add_vertex of the loop
DemoAddVertex ==
    /\ num_vertices < DemoVertices
    /\ SetGraph(add_vertex(GraphRec, num_vertices))
    /\ UNCHANGED <<directed, nruns, last>>

\* lines 313-321: the next add_edge
DemoAddEdge ==
    /\ num_vertices = DemoVertices
    /\ NumEntries < Len(DemoEdges)
    /\ LET e == DemoEdges[NumEntries + 1]
       IN  SetGraph(add_edge(GraphRec, e[1], e[2], <<e[3]>>))
    /\ UNCHANGED <<directed, nruns, last>>

DemoBuilt == num_vertices = DemoVertices /\ NumEntries = Len(DemoEdges)

DemoBfs(key) ==
    /\ DemoBuilt
    /\ CanCall(DemoCalls)
    /\ Finish("bfs", <<key>>, bfs(Mut, key))
DemoDfs ==
    /\ DemoBuilt
    /\ CanCall(DemoCalls)
    /\ Finish("dfs", <<>>, dfs(Mut))
DemoBellmanFord(key) ==
    /\ DemoBuilt
    /\ CanCall(DemoCalls)
    /\ Finish("bellman_ford", <<key>>, bellman_ford(Mut, key))
DemoDijkstra(key) ==
    /\ DemoBuilt
    /\ CanCall(DemoCalls)
    /\ Finish("dijkstra", <<key>>, dijkstra(Mut, key))

DemoNext ==
    \/ DemoAddVertex
    \/ DemoAddEdge
    \/ \E key \in DemoKeys : DemoBfs(key)
    \/ DemoDfs
    \/ \E key \in DemoKeys : DemoBellmanFord(key)
    \/ \E key \in DemoKeys : DemoDijkstra(key)

DemoSpec == DemoInit /\ [][DemoNext]_vars

----------------------------------------------------------------------------
(* Construction from edge tuples: add_edge called with the values of a    *)
(* tuple e as its arguments, and add_edges(L) for a list L of tuples       *)

\* the tuples have keys 0..MaxTupleKey and the optional weight MaxWeight; the
\* lists hold at most MaxListLen tuples
MaxTupleKey == 1
MaxListLen == 2
EdgeTuples ==
    {<<a, b>> : a \in 0..MaxTupleKey, b \in 0..MaxTupleKey}
    \cup {<<a, b, MaxWeight>> : a \in 0..MaxTupleKey, b \in 0..MaxTupleKey}
EdgeLists == UNION {[1..n -> EdgeTuples] : n \in 0..MaxListLen}

AddEdgeStar(e) ==
    /\ LET r == add_edge_star(GraphRec, e)
       IN  /\ r.g.num_vertices <= MaxObjs
           /\ SumLen(r.g.connected_to, r.g.num_vertices) <= MaxEdges
           /\ SetGraph(r.g)
           /\ last' = Call("add_edge", e, r.outcome, <<>>)
    /\ UNCHANGED <<directed, nruns>>

AddEdges(L) ==
    /\ LET r == add_edges(GraphRec, L)
       IN  /\ SetGraph(r.g)
           /\ last' = Call("add_edges", L, r.outcome, <<>>)
    /\ UNCHANGED <<directed, nruns>>

EdgesNext ==
    \/ \E e \in EdgeTuples : AddEdgeStar(e)
    \/ \E L \in EdgeLists : AddEdges(L)

EdgesSpec == Init /\ [][EdgesNext]_vars

----------------------------------------------------------------------------
(* The graph as its queries show it: the keys of get_vertices() and the    *)
(* edges of get_edges(), by vertex id                                      *)

KeysIn == Range(get_vertices)
Obj(key) == DictGet(vertices, key)
KeyEdges == {<<vid[e[1]], vid[e[2]], e[3]>> : e \in Range(get_edges)}
EdgeWeights(a, b) == {e[3] : e \in {x \in KeyEdges : x[1] = a /\ x[2] = b}}
MinOf(S) == CHOOSE x \in S : \A y \in S : x <= y

\* every Vertex ever constructed is still the one stored under its key:
\* add_vertex was never called on a key that was already there
NoReAdd == num_vertices = Len(vertices)

\* the paths from s to v that repeat no vertex
SimplePaths(s, v) ==
    {p \in UNION {[1..n -> KeysIn] : n \in 1..Cardinality(KeysIn)} :
        /\ p[1] = s
        /\ p[Len(p)] = v
        /\ \A i, j \in 1..Len(p) : i # j => p[i] # p[j]
        /\ \A i \in 1..(Len(p) - 1) : connected(p[i], p[i + 1])}
ReachableFrom(s, v) == SimplePaths(s, v) # {}
\* the total weight of a path
RECURSIVE PathWeight(_)
PathWeight(p) ==
    IF Len(p) <= 1 THEN 0
    ELSE MinOf(EdgeWeights(p[1], p[2])) + PathWeight(Tail(p))
\* the minimum number of edges, and the minimum total weight, of a path s -> v
MinHops(s, v) == MinOf({Len(p) - 1 : p \in SimplePaths(s, v)})
MinWeight(s, v) == MinOf({PathWeight(p) : p \in SimplePaths(s, v)})
\* a cycle of negative total weight through a vertex reachable from s
NegativeCycleReachable(s) ==
    \E a \in KeysIn, b \in KeysIn :
        /\ ReachableFrom(s, a)
        /\ connected(b, a)
        /\ \E p \in SimplePaths(a, b) :
               PathWeight(p) + MinOf(EdgeWeights(b, a)) < 0

\* v.dist[s] and v.predecessor (as a key, or None = -1) of the vertex under key v
NoKey == 0 - 1
DistOf(m, v, s) == m.dist[Obj(v)][Obj(s)]
PredOf(m, v) == IF m.predecessor[Obj(v)] = None THEN NoKey
                ELSE vid[m.predecessor[Obj(v)]]

\* the last call was op(s) and it returned
Returned(op) == last.op = op /\ last.outcome = "ok"

----------------------------------------------------------------------------
(* Claims *)

\* C1: after bfs(s) returns, every vertex v reachable from s has v.dist[s] equal
\* to the minimum number of edges of a path s -> v, and every other vertex has
\* v.dist[s] = sys.maxsize and no predecessor.
C1_BfsMinHops ==
    Returned("bfs") =>
        \A v \in KeysIn :
            IF ReachableFrom(last.args[1], v)
            THEN DistOf(Mut, v, last.args[1]) = MinHops(last.args[1], v)
            ELSE /\ DistOf(Mut, v, last.args[1]) = maxsize
                 /\ PredOf(Mut, v) = NoKey

\* The same on the graphs in which no key was added twice: this holds.
BfsMinHopsWithoutReAdd == NoReAdd => C1_BfsMinHops

\* C2: on a graph whose edge weights are all >= 0, dijkstra(s) and
\* bellman_ford(s), run from the same source on the same graph, leave the same
\* dist[s] on every vertex (stated for the runs in which both calls return).
NonNegativeWeights == \A e \in KeyEdges : e[3] >= 0
C2_DijkstraEqualsBellmanFord ==
    NonNegativeWeights =>
        \A s \in KeysIn :
            (dijkstra(Mut, s).outcome = "ok" /\ bellman_ford(Mut, s).outcome = "ok")
            => \A v \in KeysIn :
                   DistOf(dijkstra(Mut, s).m, v, s) = DistOf(bellman_ford(Mut, s).m, v, s)

\* The same on the graphs in which no key was added twice: this holds, and
\* both calls return.
DijkstraEqualsBellmanFordWithoutReAdd ==
    (NoReAdd /\ NonNegativeWeights) =>
        \A s \in KeysIn :
            /\ dijkstra(Mut, s).outcome = "ok"
            /\ bellman_ford(Mut, s).outcome = "ok"
            /\ \A v \in KeysIn :
                   /\ DistOf(dijkstra(Mut, s).m, v, s) = DistOf(bellman_ford(Mut, s).m, v, s)
                   /\ IF ReachableFrom(s, v)
                      THEN DistOf(dijkstra(Mut, s).m, v, s) = MinWeight(s, v)
                      ELSE DistOf(dijkstra(Mut, s).m, v, s) = maxsize

\* C3: bellman_ford(s) fails with ValueError if and only if a cycle of negative
\* total weight is reachable from s, and returns normally otherwise (stated on
\* the graphs in which no key was added twice, which is enough to refute it).
C3_NegativeCycleIffReachable ==
    (NoReAdd /\ last.op = "bellman_ford" /\ last.outcome # "KeyError") =>
        /\ last.outcome \in {"ok", "ValueError"}
        /\ last.outcome = "ValueError" <=> NegativeCycleReachable(last.args[1])

\* What the code does instead: it fails if and only if the graph holds a cycle
\* of negative total weight anywhere, reachable from s or not.
NegativeCycleAnywhere == \E a \in KeysIn : NegativeCycleReachable(a)
BellmanFordFailsOnAnyNegativeCycle ==
    (NoReAdd /\ last.op = "bellman_ford" /\ last.outcome # "KeyError") =>
        /\ last.outcome \in {"ok", "ValueError"}
        /\ last.outcome = "ValueError" <=> NegativeCycleAnywhere

\* C4: with no negative cycle reachable from s, after bellman_ford(s) every
\* vertex reachable from s has dist[s] equal to the minimum total weight of a
\* path from s, and every other vertex has dist[s] = sys.maxsize and no
\* predecessor (stated on the graphs in which no key was added twice, which is
\* enough to refute it).
C4_BellmanFordShortestPaths ==
    (NoReAdd /\ Returned("bellman_ford")
        /\ ~NegativeCycleReachable(last.args[1])) =>
        \A v \in KeysIn :
            IF ReachableFrom(last.args[1], v)
            THEN DistOf(Mut, v, last.args[1]) = MinWeight(last.args[1], v)
            ELSE /\ DistOf(Mut, v, last.args[1]) = maxsize
                 /\ PredOf(Mut, v) = NoKey

\* The part of C4 that holds: the distances of the vertices reachable from s.
BellmanFordReachableDistances ==
    (NoReAdd /\ Returned("bellman_ford")) =>
        \A v \in KeysIn :
            ReachableFrom(last.args[1], v)
            => DistOf(Mut, v, last.args[1]) = MinWeight(last.args[1], v)

\* the call that was made last, made once more on the graph as it is now
Again ==
    CASE last.op = "bfs" -> bfs(Mut, last.args[1])
      [] last.op = "dijkstra" -> dijkstra(Mut, last.args[1])
      [] last.op = "bellman_ford" -> bellman_ford(Mut, last.args[1])
      [] OTHER -> Ret(Mut, "ok", <<>>)

\* C7: after bfs, dijkstra or bellman_ford has returned, the same call made
\* again from the same source key on the unmodified graph leaves every vertex
\* with the same dist[source] and the same predecessor.
C7_SecondRunSameResult ==
    (Returned("bfs") \/ Returned("dijkstra") \/ Returned("bellman_ford")) =>
        \A v \in KeysIn :
            /\ DistOf(Again.m, v, last.args[1]) = DistOf(Mut, v, last.args[1])
            /\ PredOf(Again.m, v) = PredOf(Mut, v)

\* The same on the graphs in which no key was added twice: this holds.
SecondRunSameResultWithoutReAdd == NoReAdd => C7_SecondRunSameResult

\* the vertex at which the walk of print_path along predecessor stops: the
\* source, or a vertex with no predecessor (n bounds the walk)
RECURSIVE WalkEnd(_, _, _)
WalkEnd(source, v, n) ==
    IF v = source \/ predecessor[v] = None \/ n = 0 THEN v
    ELSE WalkEnd(source, predecessor[v], n - 1)

\* C8: when the walk from the destination along predecessor ends at a vertex
\* that has no predecessor and is not the source, print_path(source,
\* destination) prints the "no path" line for that source and destination and
\* nothing else (stated on the graphs in which no key was added twice, which
\* is enough to refute it).
C8_NoPartialPath ==
    NoReAdd =>
        \A ks \in KeysIn, kd \in KeysIn :
            LET e == WalkEnd(Obj(ks), Obj(kd), num_vertices)
            IN  (e # Obj(ks) /\ predecessor[e] = None)
                => print_path(ks, kd).out = <<PrintNoPath(ks, kd)>>

\* C9: dfs() prints every key of get_vertices() exactly once, a vertex after
\* its predecessor, and leaves every vertex BLACK.
C9_DfsEachVertexOnce ==
    last.op = "dfs" =>
        /\ \A k \in KeysIn :
               Cardinality({i \in 1..Len(last.out) : last.out[i] = PrintId(k)}) = 1
        /\ Len(last.out) = Cardinality(KeysIn)
        /\ \A k \in KeysIn : color[Obj(k)] = BLACK
        /\ \A k \in KeysIn :
               PredOf(Mut, k) # NoKey =>
                   \E i, j \in 1..Len(last.out) :
                       /\ i < j
                       /\ last.out[i] = PrintId(PredOf(Mut, k))
                       /\ last.out[j] = PrintId(k)

\* The same on the graphs in which no key was added twice: this holds.
DfsEachVertexOnceWithoutReAdd == NoReAdd => C9_DfsEachVertexOnce

\* C10: in an undirected graph connected(a, b) = connected(b, a) and the
\* weight stored for a -> b is the weight stored for b -> a, for all keys.
C10_UndirectedSymmetric ==
    ~directed =>
        \A a \in KeysIn, b \in KeysIn :
            /\ connected(a, b) = connected(b, a)
            /\ EdgeWeights(a, b) = EdgeWeights(b, a)

\* The same on the graphs in which no key was added twice: this holds.
UndirectedSymmetricWithoutReAdd == NoReAdd => C10_UndirectedSymmetric

\* dist[get_vertex(0)] and predecessor of the vertices 0..5 of the demo graph
DemoDists == [k \in DemoKeys |-> DistOf(Mut, k, 0)]
DemoPreds == [k \in DemoKeys |-> PredOf(Mut, k)]
DemoRan(op) == DemoBuilt /\ Returned(op) /\ last.args = <<0>>

\* C5 as claimed: on the demo graph dijkstra(0) leaves the distances
\* {0:0, 1:5, 2:3, 3:5, 4:8, 5:2}.
C5_DemoDijkstraAsClaimed ==
    DemoRan("dijkstra") => DemoDists = (0 :> 0 @@ 1 :> 5 @@ 2 :> 3 @@ 3 :> 5 @@ 4 :> 8 @@ 5 :> 2)

\* C5, amended: on the demo graph dijkstra(0) leaves the distances
\* {0:0, 1:5, 2:3, 3:12, 4:10, 5:2} (3 is reached through 2, 4 through 5; the
\* edges (3,5) and (4,0) point the other way).
C5_DemoDijkstra ==
    DemoRan("dijkstra") => DemoDists = (0 :> 0 @@ 1 :> 5 @@ 2 :> 3 @@ 3 :> 12 @@ 4 :> 10 @@ 5 :> 2)
C5_Witness == DemoRan("dijkstra") /\ DemoDists[3] = 12 /\ DemoDists[4] = 10

\* C6 as claimed: on the demo graph bfs(0) leaves the hop distances
\* {0:0, 1:1, 2:2, 3:3, 4:2, 5:1} and the predecessors 4<-0, 5<-0, 1<-0, 2<-1, 3<-2.
C6_DemoBfsAsClaimed ==
    DemoRan("bfs") =>
        /\ DemoDists = (0 :> 0 @@ 1 :> 1 @@ 2 :> 2 @@ 3 :> 3 @@ 4 :> 2 @@ 5 :> 1)
        /\ DemoPreds = (0 :> NoKey @@ 1 :> 0 @@ 2 :> 1 @@ 3 :> 2 @@ 4 :> 0 @@ 5 :> 0)

\* C6, amended: on the demo graph bfs(0) leaves the hop distances
\* {0:0, 1:1, 2:2, 3:3, 4:2, 5:1} and the predecessors 1<-0, 5<-0, 2<-1, 4<-5,
\* 3<-2 (the predecessor of 4 is 5: the edge between 0 and 4 is 4 -> 0).
C6_DemoBfs ==
    DemoRan("bfs") =>
        /\ DemoDists = (0 :> 0 @@ 1 :> 1 @@ 2 :> 2 @@ 3 :> 3 @@ 4 :> 2 @@ 5 :> 1)
        /\ DemoPreds = (0 :> NoKey @@ 1 :> 0 @@ 2 :> 1 @@ 3 :> 2 @@ 4 :> 5 @@ 5 :> 0)
C6_Witness == DemoRan("bfs") /\ DemoPreds[4] = 5 /\ DemoDists[3] = 3

----------------------------------------------------------------------------
(* Claims C11 - C20 *)

\* add_edge called with the values of each tuple of L as its arguments, in order
RECURSIVE AddEach(_, _)
AddEach(g, L) ==
    IF L = <<>> THEN g ELSE AddEach(add_edge_star(g, Head(L)).g, Tail(L))

\* C11: add_edges(L), for a list L of edge tuples (k1, k2) or (k1, k2, weight),
\* completes without error and leaves the graph in the state that add_edge
\* called with the values of each tuple of L, in order, leaves it in.
C11_AddEdgesAsAddEdge ==
    [][(last'.op = "add_edges" /\ last' # last) =>
          (last'.outcome = "ok" /\ GraphRec' = AddEach(GraphRec, last'.args))]_vars

\* What the code does instead: add_edges of a list that is not empty raises
\* ValueError at its first tuple and leaves the graph as it was.
AddEdgesFailsOnFirstTuple ==
    [][(last'.op = "add_edges" /\ last' # last) =>
          /\ last'.outcome = (IF last'.args = <<>> THEN "ok" ELSE "ValueError")
          /\ GraphRec' = GraphRec]_vars

\* the fields of the graph and of its vertices
topology == <<directed, num_vertices, vertices, vid, connected_to>>
fields == <<dist, color, predecessor>>

\* the step is a call of get_vertex, bfs, dijkstra, bellman_ford or print_path
\* with a key that is not in the graph
MissingKeyCall ==
    /\ nruns' = nruns + 1
    /\ last'.op \in {"get_vertex", "bfs", "dijkstra", "bellman_ford", "print_path"}
    /\ \E i \in DOMAIN last'.args : ~Contains(last'.args[i])

\* C12: get_vertex, bfs, dijkstra, bellman_ford and print_path called with a
\* key that is not in the graph fail with KeyError and leave the vertex set,
\* the adjacency and every vertex's color, dist and predecessor unchanged.
C12_MissingKeyError ==
    [][MissingKeyCall => (last'.outcome = "KeyError" /\ UNCHANGED <<topology, fields>>)]_vars
\* print_path was called on a graph with edges, with a source that is in the
\* graph and a destination that is not, and failed
C12_Witness ==
    /\ last.op = "print_path"
    /\ last.outcome = "KeyError"
    /\ Contains(last.args[1])
    /\ ~Contains(last.args[2])
    /\ NumEntries > 0

\* the three single-source algorithms, and the result of running one of them
Algorithms == {"bfs", "dijkstra", "bellman_ford"}
RunOf(op, m, key) ==
    CASE op = "bfs" -> bfs(m, key)
      [] op = "dijkstra" -> dijkstra(m, key)
      [] op = "bellman_ford" -> bellman_ford(m, key)
\* the fields of the vertices as their constructor leaves them (lines 22-26)
FreshMut == [dist |-> [o \in Objs |-> EmptyFun],
             color |-> [o \in Objs |-> WHITE],
             predecessor |-> [o \in Objs |-> None]]

\* the step is a run of an algorithm from a key s2 that follows a run from
\* another key s1, both having returned
SecondRun ==
    /\ nruns' = nruns + 1
    /\ last.op \in Algorithms /\ last.outcome = "ok"
    /\ last'.op \in Algorithms /\ last'.outcome = "ok"
    /\ last'.args # last.args
\* the step leaves every dist entry for a source other than source as it was
DistOfOthersKept(source) ==
    \A o \in Objs : \A s \in DOMAIN dist[o] :
        s # source => (s \in DOMAIN dist'[o] /\ dist'[o][s] = dist[o][s])
\* the step leaves every vertex with the predecessor, or with the color, that
\* the same run leaves on vertices that no algorithm has touched
PredecessorOverwritten ==
    predecessor' = RunOf(last'.op, FreshMut, last'.args[1]).m.predecessor
ColorOverwritten ==
    color' = RunOf(last'.op, FreshMut, last'.args[1]).m.color

\* C13 as claimed: a run of bfs, dijkstra or bellman_ford from s2 after a run
\* from s1 # s2 leaves the dist[s1] entry of every vertex unchanged (it only
\* adds or rewrites the dist[s2] entries), and overwrites color and predecessor.
C13_SecondRunAsClaimed ==
    [][SecondRun => /\ DistOfOthersKept(Obj(last'.args[1]))
                    /\ PredecessorOverwritten
                    /\ ColorOverwritten]_vars

\* C13, amended: a run of bfs, dijkstra or bellman_ford from s2 after a run
\* from s1 # s2 leaves the dist[s1] entry of every vertex unchanged (it only
\* adds or rewrites the dist[s2] entries) and overwrites predecessor; color is
\* overwritten by bfs and left as it was by dijkstra and bellman_ford.
C13_SecondRun ==
    [][SecondRun => /\ DistOfOthersKept(Obj(last'.args[1]))
                    /\ PredecessorOverwritten
                    /\ IF last'.op = "bfs" THEN ColorOverwritten
                       ELSE color' = color]_vars
\* dijkstra has returned as the second run, a vertex holds a distance from
\* each of the two sources, and the colors of an earlier bfs are still there
C13_Witness ==
    /\ nruns = 2
    /\ Returned("dijkstra")
    /\ \E o \in Objs : Cardinality(DOMAIN dist[o]) = 2
    /\ \E o \in Objs : color[o] = BLACK

\* The dist part on every graph of Spec, for the run that would follow: the
\* entries for the other sources are kept, whatever the run's outcome.
OtherSourcesKeptEverywhere ==
    \A op \in Algorithms, key \in KeysIn :
        \A o \in Objs : \A s \in DOMAIN dist[o] :
            s # Obj(key) =>
                /\ s \in DOMAIN RunOf(op, Mut, key).m.dist[o]
                /\ RunOf(op, Mut, key).m.dist[o][s] = dist[o][s]

\* C14: bfs, dfs, dijkstra, bellman_ford and print_path never change the
\* topology: the vertex set, every adjacency map and weight, num_vertices and
\* the directed flag are the same after the call, whether it returned or
\* failed, as before; only color, dist and predecessor are written.
C14_TopologyUnchanged ==
    [][nruns' = nruns + 1 => UNCHANGED topology]_vars
\* bellman_ford failed with the negative-cycle error after it had written
\* distances and predecessors
C14_Witness ==
    /\ last.op = "bellman_ford"
    /\ last.outcome = "ValueError"
    /\ \E o \in Objs : predecessor[o] # None
    /\ ~NoReAdd

\* the number of predecessor links from v back to source, NoKey when the walk
\* does not get there (n bounds the walk)
RECURSIVE PredSteps(_, _, _)
PredSteps(source, v, n) ==
    IF v = source THEN 0
    ELSE IF predecessor[v] = None \/ n = 0 THEN NoKey
    ELSE LET r == PredSteps(source, predecessor[v], n - 1)
         IN  IF r = NoKey THEN NoKey ELSE r + 1

\* C15: after bfs(s) returns, the predecessor links form a shortest-hop-count
\* tree rooted at s: s has no predecessor, and every other vertex v reachable
\* from s has a predecessor u such that u -> v is an edge and v.dist[s] =
\* u.dist[s] + 1, so following predecessors from v reaches s in exactly
\* v.dist[s] steps.
C15_BfsTree ==
    Returned("bfs") =>
        /\ PredOf(Mut, last.args[1]) = NoKey
        /\ \A v \in KeysIn \ {last.args[1]} :
               ReachableFrom(last.args[1], v) =>
                   /\ predecessor[Obj(v)] # None
                   /\ connected(PredOf(Mut, v), v)
                   /\ DistOf(Mut, v, last.args[1])
                          = dist[predecessor[Obj(v)]][Obj(last.args[1])] + 1
                   /\ PredSteps(Obj(last.args[1]), Obj(v), num_vertices)
                          = DistOf(Mut, v, last.args[1])

\* The same on the graphs in which no key was added twice: this holds.
BfsTreeWithoutReAdd == NoReAdd => C15_BfsTree

\* C16: on every graph that add_vertex / add_edge calls build, bellman_ford(s)
\* performs exactly |V| - 1 relaxation passes over all edges before the
\* detection scan, |V| being the size of get_vertices() (stated for the calls
\* that reach the detection scan).
C16_BellmanFordPasses ==
    \A s \in KeysIn :
        bellman_ford(Mut, s).outcome \in {"ok", "ValueError"}
        => bellman_ford(Mut, s).passes = Len(get_vertices) - 1

\* The same on the graphs in which no key was added twice: this holds.
BellmanFordPassesWithoutReAdd == NoReAdd => C16_BellmanFordPasses
\* What the code does: num_vertices - 1 passes, num_vertices being the number
\* of add_vertex calls made.
BellmanFordPassesByNumVertices ==
    \A s \in KeysIn :
        bellman_ford(Mut, s).outcome \in {"ok", "ValueError"}
        => bellman_ford(Mut, s).passes = num_vertices - 1

\* a sequence that holds no element twice
NoRepeat(q) == \A i, j \in 1..Len(q) : i # j => q[i] # q[j]

\* dijkstra(s) called in this state: the states of its loop, and the vertex
\* that every turn extracts
DijkstraRun(s) == DijkstraTrace(DijkstraStart(Mut, Obj(s)), Obj(s))
Extracted(tr) == [i \in 1..(Len(tr) - 1) |-> pop_task(tr[i].pq).task]
Tasks(pq) == [i \in 1..Len(pq) |-> pq[i][1]]

\* C17: in dijkstra(s) on a graph with all weights >= 0, the priority queue
\* holds at most one entry per vertex at any time, a vertex that was extracted
\* is never inserted again, every vertex is extracted exactly once (|V|
\* extractions, in non-decreasing order of final distance), and the loop
\* ends with the queue empty.
C17_DijkstraQueue ==
    NonNegativeWeights =>
        \A s \in KeysIn :
            LET tr == DijkstraRun(s)
                fin == tr[Len(tr)]
                ex == Extracted(tr)
            IN  /\ fin.outcome = "ok"
                /\ pq_empty(fin.pq)
                /\ \A i \in 1..Len(tr) : NoRepeat(Tasks(tr[i].pq))
                /\ \A j \in 1..Len(ex) : \A i \in (j + 1)..Len(tr) :
                       ex[j] \notin Range(Tasks(tr[i].pq))
                /\ Len(ex) = Len(get_vertices)
                /\ Range(ex) = LiveObjs
                /\ \A i, j \in 1..Len(ex) :
                       i < j => fin.m.dist[ex[i]][Obj(s)] <= fin.m.dist[ex[j]][Obj(s)]

\* The same on the graphs in which no key was added twice: this holds.
DijkstraQueueWithoutReAdd == NoReAdd => C17_DijkstraQueue

\* bfs(s) called in this state: the states of its loop
BfsRun(s) == BfsTrace(BfsStart(Mut, Obj(s)), Obj(s))
\* the vertices put on the queue by the turn that leads from b1 to b2
NewlyQueued(b1, b2) == SubSeq(b2.q, Len(b1.q), Len(b2.q))
\* every put of the run, in order
RECURSIVE AllPuts(_, _)
AllPuts(tr, i) ==
    IF i >= Len(tr) THEN <<>>
    ELSE NewlyQueued(tr[i], tr[i + 1]) \o AllPuts(tr, i + 1)

\* C18: during bfs(s) every vertex's color only moves WHITE -> GRAY -> BLACK:
\* a vertex becomes GRAY exactly when it is put on the queue, becomes BLACK
\* only after all its out-neighbours have been scanned, is put on the queue
\* at most once, and when bfs returns no vertex is GRAY: every vertex
\* reachable from s is BLACK, every other vertex is WHITE.
C18_BfsColors ==
    \A s \in KeysIn :
        LET tr == BfsRun(s)
            fin == tr[Len(tr)]
        IN  /\ tr[1].m.color[Obj(s)] = GRAY
            /\ \A i \in 1..(Len(tr) - 1) : \A o \in Objs :
                   LET c1 == tr[i].m.color[o]
                       c2 == tr[i + 1].m.color[o]
                   IN  /\ c2 = c1 \/ (c1 = WHITE /\ c2 = GRAY) \/ (c1 = GRAY /\ c2 = BLACK)
                       /\ (c1 = WHITE /\ c2 = GRAY)
                              <=> o \in Range(NewlyQueued(tr[i], tr[i + 1]))
                       /\ (c1 = GRAY /\ c2 = BLACK) =>
                              /\ o = Head(tr[i].q)
                              /\ \A v \in Range(get_connections(o)) :
                                     tr[i + 1].m.color[v] # WHITE
            /\ NoRepeat(<<Obj(s)>> \o AllPuts(tr, 1))
            /\ ~fin.hang
            /\ \A v \in KeysIn :
                   fin.m.color[Obj(v)] = IF ReachableFrom(s, v) THEN BLACK ELSE WHITE

\* The same on the graphs in which no key was added twice: this holds.
BfsColorsWithoutReAdd == NoReAdd => C18_BfsColors

\* C19: in bfs(s), on every graph that add_vertex / add_edge calls build, the
\* number of vertices held in the FIFO queue never exceeds the capacity
\* num_vertices it was created with, so no put finds the queue full and
\* blocks, and bfs always ends.
C19_BfsQueueWithinCapacity ==
    /\ last.op = "bfs" => last.outcome \in {"ok", "KeyError"}
    /\ \A s \in KeysIn :
           LET tr == BfsRun(s)
           IN  \A i \in 1..Len(tr) : ~tr[i].hang /\ Len(tr[i].q) <= num_vertices
\* bfs has returned on a graph in which a key was added twice, after it had
\* put the replaced vertex on the queue, and has blackened three vertices
C19_Witness ==
    /\ Returned("bfs")
    /\ \E o \in Objs \ LiveObjs : color[o] = BLACK
    /\ Cardinality({o \in Objs : color[o] = BLACK}) >= 3

\* the walk along predecessor from v ends within n steps
RECURSIVE PredChainEnds(_, _)
PredChainEnds(v, n) ==
    IF predecessor[v] = None THEN TRUE
    ELSE IF n = 0 THEN FALSE
    ELSE PredChainEnds(predecessor[v], n - 1)

\* C20: after any add_vertex / add_edge calls followed by any bfs, dfs,
\* dijkstra and bellman_ford calls (a bellman_ford call that fails with the
\* negative-cycle error included), the predecessor links hold no cycle:
\* following predecessor from any vertex reaches a vertex with no predecessor
\* in at most |V| steps, so print_path always terminates.
C20_PredecessorAcyclic ==
    /\ \A v \in KeysIn : PredChainEnds(Obj(v), Len(get_vertices))
    /\ \A ks \in KeysIn, kd \in KeysIn : print_path(ks, kd).outcome = "ok"

\* The same after the calls that did not fail with the negative-cycle error,
\* on the graphs in which no key was added twice: this holds.
PredecessorAcyclicUnlessValueError ==
    (NoReAdd /\ last.outcome # "ValueError") => C20_PredecessorAcyclic
====
